---------------------------- MODULE Spec2Model ----------------------------
(***************************************************************************)
(* Model of package charmap: the codec registry (aliasesMap, codecsMap,    *)
(* register), the label resolution (getCodecForEncoding), the facade       *)
(* (Encode, Decode, EncodeToBuffer, DecodeToBuffer, List) and the 8-bit    *)
(* table codec (codecMap8Bit with mapBytesToRunes, mapRunesToBytes and     *)
(* their buffer variants), together with the two shipped tables.           *)
(*                                                                         *)
(* A Go string and a []byte are sequences of bytes 0..255; a rune is an    *)
(* integer; a Go map is a function whose DOMAIN is its key set.  A label   *)
(* is a string too: the sequence of its (ASCII) character codes.           *)
(***************************************************************************)
EXTENDS Integers, Sequences, FiniteSets, TLC

VARIABLES
  pc,          \* "init", "ready" or "returned"
  pending,     \* the init functions that have not run yet
  aliasesMap,  \* var aliasesMap map[string]string
  codecsMap,   \* var codecsMap map[string]codec
  call,        \* the last facade call and what it returned
  procs        \* the conversion calls of the concurrently running goroutines

vars == <<pc, pending, aliasesMap, codecsMap, call, procs>>

---------------------------------------------------------------------------
\* Bounds of the model.

\* Longest input, counted in input units (see Data).
MaxLen == 2

---------------------------------------------------------------------------
\* Errors.  NoError is Go's nil error.

NoError == "nil"

ErrUnknownEncoding == "encoding is not supported"

ErrInvalidCodepoint == "cannot convert one or more codepoints"

---------------------------------------------------------------------------
\* unicode/utf8 as the code uses it.

\* utf8.RuneError, U+FFFD.
RuneError == 65533

\* utf8.RuneSelf: runes below it are one byte.
RuneSelf == 128

\* utf8.MaxRune, U+10FFFF.
MaxRune == 1114111

\* The substitute byte of the encode direction, '?'.
SubstituteByte == 63

\* bytes.Buffer.WriteRune: the UTF-8 encoding of rune r; a rune that is not
\* a Unicode scalar value is written as U+FFFD.
WriteRune(r) ==
  IF r >= 0 /\ r < RuneSelf THEN <<r>>
  ELSE IF r >= 0 /\ r <= 2047 THEN <<192 + (r \div 64), 128 + (r % 64)>>
  ELSE IF r < 0 \/ r > MaxRune \/ (r >= 55296 /\ r <= 57343)
    THEN <<239, 191, 189>>
  ELSE IF r <= 65535
    THEN <<224 + (r \div 4096), 128 + ((r \div 64) % 64), 128 + (r % 64)>>
  ELSE <<240 + (r \div 262144), 128 + ((r \div 4096) % 64),
         128 + ((r \div 64) % 64), 128 + (r % 64)>>

\* Size of the UTF-8 sequence that lead byte b announces (0: b cannot start
\* a sequence), the `first` table of unicode/utf8.
LeadSize(b) ==
  IF b < 128 THEN 1
  ELSE IF b < 194 THEN 0
  ELSE IF b < 224 THEN 2
  ELSE IF b < 240 THEN 3
  ELSE IF b < 245 THEN 4
  ELSE 0

\* The accept range of the second byte after lead byte b, the acceptRanges
\* table of unicode/utf8 (it excludes overlong forms, surrogates and runes
\* above MaxRune).
AcceptLo(b) == IF b = 224 THEN 160 ELSE IF b = 240 THEN 144 ELSE 128

AcceptHi(b) == IF b = 237 THEN 159 ELSE IF b = 244 THEN 143 ELSE 191

IsCont(b) == b >= 128 /\ b <= 191

\* utf8.DecodeRuneInString on a non-empty s: the first rune of s and its
\* width in bytes; an invalid or truncated sequence is (RuneError, 1).
DecodeRune(s) ==
  LET b0 == s[1]
      sz == LeadSize(b0)
      bad == [r |-> RuneError, size |-> 1]
  IN IF sz = 0 THEN bad
     ELSE IF sz = 1 THEN [r |-> b0, size |-> 1]
     ELSE IF Len(s) < sz THEN bad
     ELSE IF s[2] < AcceptLo(b0) \/ AcceptHi(b0) < s[2] THEN bad
     ELSE IF sz = 2 THEN [r |-> (b0 % 32) * 64 + (s[2] % 64), size |-> 2]
     ELSE IF ~IsCont(s[3]) THEN bad
     ELSE IF sz = 3
       THEN [r |-> (b0 % 16) * 4096 + (s[2] % 64) * 64 + (s[3] % 64),
             size |-> 3]
     ELSE IF ~IsCont(s[4]) THEN bad
     ELSE [r |-> (b0 % 8) * 262144 + (s[2] % 64) * 4096
                  + (s[3] % 64) * 64 + (s[4] % 64),
           size |-> 4]

\* `for _, r := range data` over a string: the runes the loop visits.
RECURSIVE RangeString(_)
RangeString(s) ==
  IF s = <<>> THEN <<>>
  ELSE LET d == DecodeRune(s)
       IN <<d.r>> \o RangeString(SubSeq(s, d.size + 1, Len(s)))

\* `for _, r := range data` over a []byte: one element per byte, each byte
\* value converted by rune(r).
RangeBytes(s) == [i \in 1..Len(s) |-> s[i]]

---------------------------------------------------------------------------
\* Go maps.

EmptyMap == <<>>

\* m[k] = v
MapSet(m, k, v) == [x \in (DOMAIN m) \cup {k} |-> IF x = k THEN v ELSE m[x]]

Range(m) == {m[k] : k \in DOMAIN m}

---------------------------------------------------------------------------
\* The 8-bit table codec.

\* The keys of m that hold rune v.
KeysOf(m, v) == {k \in DOMAIN m : m[k] = v}

\* reverseByteRuneMap with the assignment not reversed, newmap[k] = v.
reverseByteRuneMap_NotReversed(m) == {[k \in DOMAIN m |-> m[k] % 256]}

\* reverseByteRuneMap with the rune narrowed to a byte in the key,
\* newmap[rune(byte(v))] = k.
reverseByteRuneMap_NarrowKey(m) ==
  {[v \in {m[k] % 256 : k \in DOMAIN m} |->
      CHOOSE k \in DOMAIN m : m[k] % 256 = v]}

\* reverseByteRuneMap(m): the loop `for k, v := range m { newmap[v] = k }`
\* visits the keys of m in an order Go leaves unspecified, and newmap keeps,
\* for each rune v, the key visited last among the keys that hold v.  The
\* operator is the SET of maps the call can return: a rune held by one key
\* maps to that key, and for the runes held by several keys (tied) every
\* choice of their last-visited keys is possible.
reverseByteRuneMap(m) ==
  LET tied == {v \in Range(m) : Cardinality(KeysOf(m, v)) > 1}
      last == {p \in [tied -> DOMAIN m] : \A v \in tied : p[v] \in KeysOf(m, v)}
  IN {[v \in Range(m) |-> IF v \in tied THEN p[v]
                                        ELSE CHOOSE k \in KeysOf(m, v) : TRUE] :
        p \in last}

\* mapBytesToRunesLoop without `err = ErrInvalidCodepoint`.
RECURSIVE mapBytesToRunesLoop_ErrNotSet(_, _, _, _, _)
mapBytesToRunesLoop_ErrNotSet(cm, data, i, buf, err) ==
  IF i > Len(data) THEN [result |-> buf, err |-> err]
  ELSE LET c == data[i]
       IN IF c \in DOMAIN cm
            THEN mapBytesToRunesLoop_ErrNotSet(cm, data, i + 1,
                                               buf \o WriteRune(cm[c]), err)
            ELSE mapBytesToRunesLoop_ErrNotSet(cm, data, i + 1,
                                               buf \o WriteRune(RuneError),
                                               err)

\* The loop of mapBytesToRunes from index i on, with the buffer and the error
\* accumulated so far.
RECURSIVE mapBytesToRunesLoop(_, _, _, _, _)
mapBytesToRunesLoop(cm, data, i, buf, err) ==
  IF i > Len(data) THEN [result |-> buf, err |-> err]
  ELSE LET c == data[i]
       IN IF c \in DOMAIN cm
            THEN mapBytesToRunesLoop(cm, data, i + 1,
                                     buf \o WriteRune(cm[c]), err)
            ELSE mapBytesToRunesLoop(cm, data, i + 1,
                                     buf \o WriteRune(RuneError),
                                     ErrInvalidCodepoint)

mapBytesToRunes(cm, data) == mapBytesToRunesLoop(cm, data, 1, <<>>, NoError)

\* mapRunesToBytesLoop returning at the first codepoint without a byte.
RECURSIVE mapRunesToBytesLoop_FailFast(_, _, _, _, _)
mapRunesToBytesLoop_FailFast(cm, runes, i, buf, err) ==
  IF i > Len(runes) THEN [result |-> buf, err |-> err]
  ELSE LET r == runes[i]
       IN IF r \in DOMAIN cm
            THEN mapRunesToBytesLoop_FailFast(cm, runes, i + 1,
                                              Append(buf, cm[r]), err)
            ELSE [result |-> buf, err |-> ErrInvalidCodepoint]

\* The loop of mapRunesToBytes over the runes of the string, from the i-th
\* rune on.
RECURSIVE mapRunesToBytesLoop(_, _, _, _, _)
mapRunesToBytesLoop(cm, runes, i, buf, err) ==
  IF i > Len(runes) THEN [result |-> buf, err |-> err]
  ELSE LET r == runes[i]
       IN IF r \in DOMAIN cm
            THEN mapRunesToBytesLoop(cm, runes, i + 1,
                                     Append(buf, cm[r]), err)
            ELSE mapRunesToBytesLoop(cm, runes, i + 1,
                                     Append(buf, SubstituteByte),
                                     ErrInvalidCodepoint)

\* mapRunesToBytes looping over the bytes of the string, not its runes.
mapRunesToBytes_OverBytes(cm, data) ==
  mapRunesToBytesLoop(cm, RangeBytes(data), 1, <<>>, NoError)

mapRunesToBytes(cm, data) ==
  mapRunesToBytesLoop(cm, RangeString(data), 1, <<>>, NoError)

\* mapBytesToRunesBufferLoop substituting '?' for an unmapped byte.
RECURSIVE mapBytesToRunesBufferLoop_Question(_, _, _, _, _)
mapBytesToRunesBufferLoop_Question(cm, data, i, result, err) ==
  IF i > Len(data) THEN [result |-> result, err |-> err]
  ELSE LET c == data[i]
       IN IF c \in DOMAIN cm
            THEN mapBytesToRunesBufferLoop_Question(
                   cm, data, i + 1, result \o WriteRune(cm[c]), err)
            ELSE mapBytesToRunesBufferLoop_Question(
                   cm, data, i + 1, Append(result, SubstituteByte),
                   ErrInvalidCodepoint)

\* The loop of mapBytesToRunesBuffer from index i on.
RECURSIVE mapBytesToRunesBufferLoop(_, _, _, _, _)
mapBytesToRunesBufferLoop(cm, data, i, result, err) ==
  IF i > Len(data) THEN [result |-> result, err |-> err]
  ELSE LET c == data[i]
       IN IF c \in DOMAIN cm
            THEN mapBytesToRunesBufferLoop(cm, data, i + 1,
                                           result \o WriteRune(cm[c]), err)
            ELSE mapBytesToRunesBufferLoop(cm, data, i + 1,
                                           result \o WriteRune(RuneError),
                                           ErrInvalidCodepoint)

mapBytesToRunesBuffer(cm, data) ==
  mapBytesToRunesBufferLoop(cm, data, 1, <<>>, NoError)

\* The loop of mapRunesToBytesBuffer over the elements its range clause
\* yields, from the i-th on.
RECURSIVE mapRunesToBytesBufferLoop(_, _, _, _, _)
mapRunesToBytesBufferLoop(cm, elems, i, result, err) ==
  IF i > Len(elems) THEN [result |-> result, err |-> err]
  ELSE LET r == elems[i]
       IN IF r \in DOMAIN cm
            THEN mapRunesToBytesBufferLoop(cm, elems, i + 1,
                                           Append(result, cm[r]), err)
            ELSE mapRunesToBytesBufferLoop(cm, elems, i + 1,
                                           Append(result, SubstituteByte),
                                           ErrInvalidCodepoint)

\* data is a []byte here, so the range clause yields its bytes.
mapRunesToBytesBuffer(cm, data) ==
  mapRunesToBytesBufferLoop(cm, RangeBytes(data), 1, <<>>, NoError)

\* type codecMap8Bit struct { EncodeMap; DecodeMap }
codecMap8Bit(EncodeMap, DecodeMap) ==
  [EncodeMap |-> EncodeMap, DecodeMap |-> DecodeMap]

codecMap8Bit_Encode(c, s) == mapRunesToBytes(c.EncodeMap, s)

codecMap8Bit_Decode(c, s) == mapBytesToRunes(c.DecodeMap, s)

codecMap8Bit_EncodeToBuffer(c, s) == mapRunesToBytesBuffer(c.EncodeMap, s)

codecMap8Bit_DecodeToBuffer(c, s) == mapBytesToRunesBuffer(c.DecodeMap, s)

---------------------------------------------------------------------------
\* Labels and their resolution.

\* strings.ToUpper on an ASCII label.
ToUpper(s) ==
  [i \in 1..Len(s) |-> IF s[i] >= 97 /\ s[i] <= 122 THEN s[i] - 32 ELSE s[i]]

\* strings.Replace(s, "_", "-", -1)
ReplaceUnderscores(s) == [i \in 1..Len(s) |-> IF s[i] = 95 THEN 45 ELSE s[i]]

\* The normalization without the replacement of '_'.
Normalize_UpperOnly(encoding) == ToUpper(encoding)

\* The label normalization of getCodecForEncoding.
Normalize(encoding) == ReplaceUnderscores(ToUpper(encoding))

\* getCodecForEncoding following the aliases a second time.
getCodecForEncoding_Twice(encoding) ==
  LET n == Normalize(encoding)
      once == IF n \in DOMAIN aliasesMap THEN aliasesMap[n] ELSE n
  IN IF once \in DOMAIN aliasesMap THEN aliasesMap[once] ELSE once

getCodecForEncoding(encoding) ==
  LET n == Normalize(encoding)
  IN IF n \in DOMAIN aliasesMap THEN aliasesMap[n] ELSE n

---------------------------------------------------------------------------
\* The registry.

\* The alias loop of register: aliases[i..] recorded in am, in order.
RECURSIVE registerAliases(_, _, _, _)
registerAliases(am, name, aliases, i) ==
  IF i > Len(aliases) THEN am
  ELSE registerAliases(MapSet(am, aliases[i], name), name, aliases, i + 1)

\* register recording name -> alias instead of alias -> name.
RECURSIVE registerAliasesReversed(_, _, _, _)
registerAliasesReversed(am, name, aliases, i) ==
  IF i > Len(aliases) THEN am
  ELSE registerAliasesReversed(MapSet(am, name, aliases[i]), name, aliases,
                               i + 1)

register_AliasReversed(c, name, aliases) ==
  /\ codecsMap' = MapSet(codecsMap, name, c)
  /\ aliasesMap' = registerAliasesReversed(aliasesMap, name, aliases, 1)

\* register storing the codec under every name registered so far.
register_OneCodec(c, name, aliases) ==
  /\ codecsMap' = [x \in (DOMAIN codecsMap) \cup {name} |-> c]
  /\ aliasesMap' = registerAliases(aliasesMap, name, aliases, 1)

\* register(c, name, aliases...): the two maps after the call.
register(c, name, aliases) ==
  /\ codecsMap' = MapSet(codecsMap, name, c)
  /\ aliasesMap' = registerAliases(aliasesMap, name, aliases, 1)

---------------------------------------------------------------------------
\* The facade: what each public function returns in the current registry.

Encode(data, encoding) ==
  LET name == getCodecForEncoding(encoding)
  IN IF name \in DOMAIN codecsMap
       THEN codecMap8Bit_Encode(codecsMap[name], data)
       ELSE [result |-> data, err |-> ErrUnknownEncoding]

\* Decode returning the empty string for an unknown encoding.
Decode_EmptyOnUnknown(data, encoding) ==
  LET name == getCodecForEncoding(encoding)
  IN IF name \in DOMAIN codecsMap
       THEN codecMap8Bit_Decode(codecsMap[name], data)
       ELSE [result |-> <<>>, err |-> ErrUnknownEncoding]

Decode(data, encoding) ==
  LET name == getCodecForEncoding(encoding)
  IN IF name \in DOMAIN codecsMap
       THEN codecMap8Bit_Decode(codecsMap[name], data)
       ELSE [result |-> data, err |-> ErrUnknownEncoding]

EncodeToBuffer(data, encoding) ==
  LET name == getCodecForEncoding(encoding)
  IN IF name \in DOMAIN codecsMap
       THEN codecMap8Bit_EncodeToBuffer(codecsMap[name], data)
       ELSE [result |-> data, err |-> ErrUnknownEncoding]

DecodeToBuffer(data, encoding) ==
  LET name == getCodecForEncoding(encoding)
  IN IF name \in DOMAIN codecsMap
       THEN codecMap8Bit_DecodeToBuffer(codecsMap[name], data)
       ELSE [result |-> data, err |-> ErrUnknownEncoding]

\* The orders in which a loop over a map with key set S can visit the keys.
RECURSIVE Orders(_)
Orders(S) ==
  IF S = {} THEN {<<>>}
  ELSE UNION {{<<x>> \o rest : rest \in Orders(S \ {x})} : x \in S}

\* List(): the names of codecsMap, in any of the orders the map loop can take.
List == Orders(DOMAIN codecsMap)

---------------------------------------------------------------------------
\* The shipped codecs: names, aliases and tables.

\* "ISO-8859-14"
Name_ISO_8859_14 == <<73, 83, 79, 45, 56, 56, 53, 57, 45, 49, 52>>

\* "8859-14"
Alias_8859_14 == <<56, 56, 53, 57, 45, 49, 52>>

\* The second alias of the ISO-8859-14 file left as copied from the
\* ISO-8859-2 file, "ISO8859-2".
Alias_ISO8859_14_Copied == <<73, 83, 79, 56, 56, 53, 57, 45, 50>>

\* "ISO8859-14"
Alias_ISO8859_14 == <<73, 83, 79, 56, 56, 53, 57, 45, 49, 52>>

\* "ISO-8859-2"
Name_ISO_8859_2 == <<73, 83, 79, 45, 56, 56, 53, 57, 45, 50>>

\* "8859-2"
Alias_8859_2 == <<56, 56, 53, 57, 45, 50>>

\* "ISO8859-2"
Alias_ISO8859_2 == <<73, 83, 79, 56, 56, 53, 57, 45, 50>>

\* The ISO-8859-14 table literal: entry b+1 of the tuple is the rune of byte b.
charmapDecode_8859_14 ==
  LET t == <<
      0, 1, 2, 3, 4, 5, 6, 7,   \* 0x00..0x07
      8, 9, 10, 11, 12, 13, 14, 15,   \* 0x08..0x0F
      16, 17, 18, 19, 20, 21, 22, 23,   \* 0x10..0x17
      24, 25, 26, 27, 28, 29, 30, 31,   \* 0x18..0x1F
      32, 33, 34, 35, 36, 37, 38, 39,   \* 0x20..0x27
      40, 41, 42, 43, 44, 45, 46, 47,   \* 0x28..0x2F
      48, 49, 50, 51, 52, 53, 54, 55,   \* 0x30..0x37
      56, 57, 58, 59, 60, 61, 62, 63,   \* 0x38..0x3F
      64, 65, 66, 67, 68, 69, 70, 71,   \* 0x40..0x47
      72, 73, 74, 75, 76, 77, 78, 79,   \* 0x48..0x4F
      80, 81, 82, 83, 84, 85, 86, 87,   \* 0x50..0x57
      88, 89, 90, 91, 92, 93, 94, 95,   \* 0x58..0x5F
      96, 97, 98, 99, 100, 101, 102, 103,   \* 0x60..0x67
      104, 105, 106, 107, 108, 109, 110, 111,   \* 0x68..0x6F
      112, 113, 114, 115, 116, 117, 118, 119,   \* 0x70..0x77
      120, 121, 122, 123, 124, 125, 126, 127,   \* 0x78..0x7F
      128, 129, 130, 131, 132, 133, 134, 135,   \* 0x80..0x87
      136, 137, 138, 139, 140, 141, 142, 143,   \* 0x88..0x8F
      144, 145, 146, 147, 148, 149, 150, 151,   \* 0x90..0x97
      152, 153, 154, 155, 156, 157, 158, 159,   \* 0x98..0x9F
      160, 7682, 7683, 163, 266, 267, 7690, 167,   \* 0xA0..0xA7
      7808, 169, 7810, 7691, 7922, 173, 174, 376,   \* 0xA8..0xAF
      7710, 7711, 288, 289, 7744, 7745, 182, 7766,   \* 0xB0..0xB7
      7809, 7767, 7811, 7776, 7923, 7812, 7813, 7777,   \* 0xB8..0xBF
      192, 193, 194, 195, 196, 197, 198, 199,   \* 0xC0..0xC7
      200, 201, 202, 203, 204, 205, 206, 207,   \* 0xC8..0xCF
      372, 209, 210, 211, 212, 213, 214, 7786,   \* 0xD0..0xD7
      216, 217, 218, 219, 220, 221, 374, 223,   \* 0xD8..0xDF
      224, 225, 226, 227, 228, 229, 230, 231,   \* 0xE0..0xE7
      232, 233, 234, 235, 236, 237, 238, 239,   \* 0xE8..0xEF
      373, 241, 242, 243, 244, 245, 246, 7787,   \* 0xF0..0xF7
      248, 249, 250, 251, 252, 253, 375, 255   \* 0xF8..0xFF
    >>
  IN [b \in 0..255 |-> t[b + 1]]

\* The ISO-8859-2 table literal: entry b+1 of the tuple is the rune of byte b.
charmapDecode_8859_2 ==
  LET t == <<
      0, 1, 2, 3, 4, 5, 6, 7,   \* 0x00..0x07
      8, 9, 10, 11, 12, 13, 14, 15,   \* 0x08..0x0F
      16, 17, 18, 19, 20, 21, 22, 23,   \* 0x10..0x17
      24, 25, 26, 27, 28, 29, 30, 31,   \* 0x18..0x1F
      32, 33, 34, 35, 36, 37, 38, 39,   \* 0x20..0x27
      40, 41, 42, 43, 44, 45, 46, 47,   \* 0x28..0x2F
      48, 49, 50, 51, 52, 53, 54, 55,   \* 0x30..0x37
      56, 57, 58, 59, 60, 61, 62, 63,   \* 0x38..0x3F
      64, 65, 66, 67, 68, 69, 70, 71,   \* 0x40..0x47
      72, 73, 74, 75, 76, 77, 78, 79,   \* 0x48..0x4F
      80, 81, 82, 83, 84, 85, 86, 87,   \* 0x50..0x57
      88, 89, 90, 91, 92, 93, 94, 95,   \* 0x58..0x5F
      96, 97, 98, 99, 100, 101, 102, 103,   \* 0x60..0x67
      104, 105, 106, 107, 108, 109, 110, 111,   \* 0x68..0x6F
      112, 113, 114, 115, 116, 117, 118, 119,   \* 0x70..0x77
      120, 121, 122, 123, 124, 125, 126, 127,   \* 0x78..0x7F
      128, 129, 130, 131, 132, 133, 134, 135,   \* 0x80..0x87
      136, 137, 138, 139, 140, 141, 142, 143,   \* 0x88..0x8F
      144, 145, 146, 147, 148, 149, 150, 151,   \* 0x90..0x97
      152, 153, 154, 155, 156, 157, 158, 159,   \* 0x98..0x9F
      160, 260, 728, 321, 164, 317, 346, 167,   \* 0xA0..0xA7
      168, 352, 350, 356, 377, 173, 381, 379,   \* 0xA8..0xAF
      176, 261, 731, 322, 180, 318, 347, 711,   \* 0xB0..0xB7
      184, 353, 351, 357, 378, 733, 382, 380,   \* 0xB8..0xBF
      340, 193, 194, 258, 196, 313, 262, 199,   \* 0xC0..0xC7
      268, 201, 280, 203, 282, 205, 206, 270,   \* 0xC8..0xCF
      272, 323, 327, 211, 212, 336, 214, 215,   \* 0xD0..0xD7
      344, 366, 218, 368, 220, 221, 354, 223,   \* 0xD8..0xDF
      341, 225, 226, 259, 228, 314, 263, 231,   \* 0xE0..0xE7
      269, 233, 281, 235, 283, 237, 238, 271,   \* 0xE8..0xEF
      273, 324, 328, 243, 244, 337, 246, 247,   \* 0xF0..0xF7
      345, 367, 250, 369, 252, 253, 355, 729   \* 0xF8..0xFF
    >>
  IN [b \in 0..255 |-> t[b + 1]]

\* The body the init functions share: invert the table, build the codec,
\* register it.
initCodec(charmapDecode, name, aliases) ==
  \E charmapEncode \in reverseByteRuneMap(charmapDecode) :
    register(codecMap8Bit(charmapEncode, charmapDecode), name, aliases)

---------------------------------------------------------------------------
\* Inputs of the model.

\* The strings of at most n units, each unit a byte sequence of `units`.
RECURSIVE Inputs(_, _)
Inputs(units, n) ==
  IF n = 0 THEN {<<>>}
  ELSE LET shorter == Inputs(units, n - 1)
       IN shorter \cup {s \o u : s \in shorter, u \in units}

\* Units of the inputs given to the shipped codecs: "A"; U+0104 in UTF-8
\* (in ISO-8859-2 only); U+1E02 in UTF-8 (in ISO-8859-14 only); the lone
\* byte 0xA1 (a byte of both tables, and not valid UTF-8).
Units == {<<65>>, <<196, 132>>, <<225, 184, 130>>, <<161>>}

Data == Inputs(Units, MaxLen)

\* The spellings of label s that differ from it in letter case or in '_'
\* for '-' only.
RECURSIVE Variants(_)
Variants(s) ==
  IF s = <<>> THEN {<<>>}
  ELSE LET c == Head(s)
           alt == {c} \cup (IF c >= 65 /\ c <= 90 THEN {c + 32} ELSE {})
                      \cup (IF c = 45 THEN {95} ELSE {})
       IN {<<a>> \o t : a \in alt, t \in Variants(Tail(s))}

RegisteredNames ==
  {Name_ISO_8859_14, Alias_8859_14, Alias_ISO8859_14,
   Name_ISO_8859_2, Alias_8859_2, Alias_ISO8859_2}

KnownLabels == UNION {Variants(s) : s \in RegisteredNames}

\* Labels no codec is registered for: "NOT-A-REAL-ENCODING", "LATIN2", "",
\* "ISO-8859-3", "ISO 8859-2", "ISO-8859-2 ".
UnknownLabels ==
  {<<78, 79, 84, 45, 65, 45, 82, 69, 65, 76, 45, 69, 78, 67, 79, 68, 73, 78, 71>>,
   <<76, 65, 84, 73, 78, 50>>,
   <<>>,
   <<73, 83, 79, 45, 56, 56, 53, 57, 45, 51>>,
   <<73, 83, 79, 32, 56, 56, 53, 57, 45, 50>>,
   <<73, 83, 79, 45, 56, 56, 53, 57, 45, 50, 32>>}

Labels == KnownLabels \cup UnknownLabels

\* A codec file with an arbitrary table: its bytes, its runes ("A", U+0104,
\* U+FFFD), its tables (partial, and not necessarily injective), its name
\* "T-1" and its alias "T1".
TableBytes == {65, 161}

TableRunes == {65, 260, RuneError}

Tables == UNION {[D -> TableRunes] : D \in SUBSET TableBytes}

Name_Table == <<84, 45, 49>>

Alias_Table == <<84, 49>>

\* Units of the inputs given to that codec: "A"; U+0104 and U+FFFD in UTF-8;
\* the lone bytes 0xA1 and 0xFF.
TableUnits == {<<65>>, <<196, 132>>, <<239, 191, 189>>, <<161>>, <<255>>}

TableData == Inputs(TableUnits, MaxLen)

\* "U"
UnknownTableLabel == <<85>>

TableLabels ==
  Variants(Name_Table) \cup Variants(Alias_Table) \cup {UnknownTableLabel}

\* Every one-byte input, 0x00..0xFF.
SingleBytes == {<<b>> : b \in 0..255}

\* The tables a codec file is modelled with: the arbitrary ones and the two
\* shipped ones.
AnyTables == Tables \cup {charmapDecode_8859_14, charmapDecode_8859_2}

---------------------------------------------------------------------------
\* The state machine.

\* The goroutines that call the package concurrently.
NumProcs == 2

Procs == 1..NumProcs

\* A goroutine that is not inside a call.
IdleProc ==
  [pc |-> "idle", op |-> "none", data |-> <<>>, encoding |-> <<>>,
   name |-> <<>>, i |-> 0, result |-> <<>>, err |-> NoError]

NoCall ==
  [op |-> "none", data |-> <<>>, encoding |-> <<>>, result |-> <<>>,
   err |-> NoError]

\* AfterInit letting main start as soon as one init function has run.
AfterInit_EarlyMain(routine) ==
  /\ pending' = pending \ {routine}
  /\ pc' = "ready"
  /\ UNCHANGED <<call, procs>>

\* Package initialisation runs every init function, then main starts.
AfterInit(routine) ==
  /\ pending' = pending \ {routine}
  /\ pc' = IF pending \ {routine} = {} THEN "ready" ELSE "init"
  /\ UNCHANGED <<call, procs>>

\* func init() of the ISO-8859-14 file.
init_8859_14 ==
  /\ pc = "init"
  /\ "iso-8859-14" \in pending
  /\ initCodec(charmapDecode_8859_14, Name_ISO_8859_14,
               <<Alias_8859_14, Alias_ISO8859_14>>)
  /\ AfterInit("iso-8859-14")

\* init of codec-iso-8859-2.go with a table that lists 0x00..0x7F only.
init_8859_2_AsciiOnly ==
  /\ pc = "init"
  /\ "iso-8859-2" \in pending
  /\ initCodec([b \in 0..127 |-> charmapDecode_8859_2[b]], Name_ISO_8859_2,
               <<Alias_8859_2, Alias_ISO8859_2>>)
  /\ AfterInit("iso-8859-2")

\* func init() of codec-iso-8859-2.go.
init_8859_2 ==
  /\ pc = "init"
  /\ "iso-8859-2" \in pending
  /\ initCodec(charmapDecode_8859_2, Name_ISO_8859_2,
               <<Alias_8859_2, Alias_ISO8859_2>>)
  /\ AfterInit("iso-8859-2")

\* func init() of a codec file whose table is charmapDecode.
init_Table(charmapDecode) ==
  /\ pc = "init"
  /\ "table" \in pending
  /\ initCodec(charmapDecode, Name_Table, <<Alias_Table>>)
  /\ AfterInit("table")

Returned(op, data, encoding, r) ==
  /\ call' = [op |-> op, data |-> data, encoding |-> encoding,
              result |-> r.result, err |-> r.err]
  /\ pc' = "returned"
  /\ UNCHANGED <<pending, aliasesMap, codecsMap, procs>>

\* A call of each conversion, its input drawn from set D and its label
\* from set L.
CallEncode(D, L) ==
  /\ pc = "ready"
  /\ \E data \in D, encoding \in L :
       Returned("Encode", data, encoding, Encode(data, encoding))

CallDecode(D, L) ==
  /\ pc = "ready"
  /\ \E data \in D, encoding \in L :
       Returned("Decode", data, encoding, Decode(data, encoding))

CallEncodeToBuffer(D, L) ==
  /\ pc = "ready"
  /\ \E data \in D, encoding \in L :
       Returned("EncodeToBuffer", data, encoding,
                EncodeToBuffer(data, encoding))

CallDecodeToBuffer(D, L) ==
  /\ pc = "ready"
  /\ \E data \in D, encoding \in L :
       Returned("DecodeToBuffer", data, encoding,
                DecodeToBuffer(data, encoding))

CallList ==
  /\ pc = "ready"
  /\ \E list \in List :
       Returned("List", <<>>, <<>>, [result |-> list, err |-> NoError])

\* The caller takes the result; the next call can start.
Return ==
  /\ pc = "returned"
  /\ pc' = "ready"
  /\ call' = NoCall
  /\ UNCHANGED <<pending, aliasesMap, codecsMap, procs>>

\* The package as shipped.
Init ==
  /\ pc = "init"
  /\ pending = {"iso-8859-14", "iso-8859-2"}
  /\ aliasesMap = EmptyMap
  /\ codecsMap = EmptyMap
  /\ call = NoCall
  /\ procs = [p \in Procs |-> IdleProc]

Next ==
  \/ init_8859_14
  \/ init_8859_2
  \/ CallEncode(Data, Labels)
  \/ CallDecode(Data, Labels)
  \/ CallDecode(SingleBytes, {Name_ISO_8859_14, Name_ISO_8859_2})
  \/ CallEncodeToBuffer(Data, Labels)
  \/ CallDecodeToBuffer(Data, Labels)
  \/ CallList
  \/ Return

Spec == Init /\ [][Next]_vars

\* The engine with one codec file of an arbitrary table.
InitTable ==
  /\ pc = "init"
  /\ pending = {"table"}
  /\ aliasesMap = EmptyMap
  /\ codecsMap = EmptyMap
  /\ call = NoCall
  /\ procs = [p \in Procs |-> IdleProc]

NextTable ==
  \/ \E charmapDecode \in AnyTables : init_Table(charmapDecode)
  \/ CallEncode(TableData, TableLabels)
  \/ CallDecode(TableData, TableLabels)
  \/ CallDecode(SingleBytes, {Name_Table})
  \/ CallEncodeToBuffer(TableData, TableLabels)
  \/ CallDecodeToBuffer(TableData, TableLabels)
  \/ CallList
  \/ Return

SpecTable == InitTable /\ [][NextTable]_vars


---------------------------------------------------------------------------
\* Concurrent use: each goroutine runs its call one step at a time, the
\* steps of different goroutines interleaved.  A step is one access to the
\* shared registry or one iteration of a codec loop.

\* The inputs and labels of the concurrent calls: the lone byte 0xA1 and
\* U+0104 in UTF-8; "iso8859_2" (normalized to the alias "ISO8859-2") and the
\* unknown "LATIN2".
ConcData == {<<161>>, <<196, 132>>}

ConcLabels ==
  {<<105, 115, 111, 56, 56, 53, 57, 95, 50>>, <<76, 65, 84, 73, 78, 50>>}

\* The elements the loop of operation op visits in data.
LoopElems(op, data) ==
  IF op = "Encode" THEN RangeString(data)
  ELSE IF op = "EncodeToBuffer" THEN RangeBytes(data)
  ELSE data

\* One iteration of the loop of operation op under codec c, on element elem,
\* with the buffer and the error accumulated so far.
LoopIteration(op, c, elem, buf, err) ==
  IF op = "Encode" THEN mapRunesToBytesLoop(c.EncodeMap, <<elem>>, 1, buf, err)
  ELSE IF op = "EncodeToBuffer"
    THEN mapRunesToBytesBufferLoop(c.EncodeMap, <<elem>>, 1, buf, err)
  ELSE IF op = "Decode"
    THEN mapBytesToRunesLoop(c.DecodeMap, <<elem>>, 1, buf, err)
  ELSE mapBytesToRunesBufferLoop(c.DecodeMap, <<elem>>, 1, buf, err)

\* Goroutine p alone moves, to record r; the registry is only read.
ProcStep(p, r) ==
  /\ procs' = [procs EXCEPT ![p] = r]
  /\ UNCHANGED <<pc, pending, aliasesMap, codecsMap, call>>

\* Goroutine p enters one of the public functions.
ProcCall(p) ==
  /\ pc = "ready"
  /\ procs[p].pc = "idle"
  /\ \/ \E op \in {"Encode", "Decode", "EncodeToBuffer", "DecodeToBuffer"},
           data \in ConcData, encoding \in ConcLabels :
          ProcStep(p, [IdleProc EXCEPT !.pc = "resolve", !.op = op,
                                       !.data = data, !.encoding = encoding])
     \/ ProcStep(p, [IdleProc EXCEPT !.pc = "list", !.op = "List"])

\* ProcResolve remembering the resolution of the label in aliasesMap.
ProcResolve_Caching(p) ==
  /\ procs[p].pc = "resolve"
  /\ LET name == getCodecForEncoding(procs[p].encoding)
     IN /\ procs' = [procs EXCEPT ![p] = [procs[p] EXCEPT !.pc = "lookup",
                                                           !.name = name]]
        /\ aliasesMap' = MapSet(aliasesMap, Normalize(procs[p].encoding), name)
  /\ UNCHANGED <<pc, pending, codecsMap, call>>

\* encoding = getCodecForEncoding(encoding): the read of aliasesMap.
ProcResolve(p) ==
  /\ procs[p].pc = "resolve"
  /\ ProcStep(p, [procs[p] EXCEPT !.pc = "lookup",
                                  !.name = getCodecForEncoding(procs[p].encoding)])

\* codec, ok := codecsMap[encoding]: the read of codecsMap; without a codec
\* the call returns its input and ErrUnknownEncoding.
ProcLookup(p) ==
  /\ procs[p].pc = "lookup"
  /\ IF procs[p].name \in DOMAIN codecsMap
       THEN ProcStep(p, [procs[p] EXCEPT !.pc = "loop", !.i = 1])
       ELSE ProcStep(p, [procs[p] EXCEPT !.pc = "done",
                                         !.result = procs[p].data,
                                         !.err = ErrUnknownEncoding])

\* One iteration of the codec's loop (a read of the codec's table), or the
\* return at the end of the input.
ProcLoop(p) ==
  /\ procs[p].pc = "loop"
  /\ LET q == procs[p]
         elems == LoopElems(q.op, q.data)
     IN IF q.i > Len(elems)
          THEN ProcStep(p, [q EXCEPT !.pc = "done"])
          ELSE LET r == LoopIteration(q.op, codecsMap[q.name], elems[q.i],
                                      q.result, q.err)
               IN ProcStep(p, [q EXCEPT !.i = q.i + 1, !.result = r.result,
                                        !.err = r.err])

\* List(): the loop over codecsMap.
ProcList(p) ==
  /\ procs[p].pc = "list"
  /\ \E list \in List : ProcStep(p, [procs[p] EXCEPT !.pc = "done",
                                                     !.result = list])

\* The caller takes the result.
ProcReturn(p) ==
  /\ procs[p].pc = "done"
  /\ ProcStep(p, IdleProc)

NextConc ==
  \/ init_8859_14
  \/ init_8859_2
  \/ \E p \in Procs : ProcCall(p)
  \/ \E p \in Procs : ProcResolve(p)
  \/ \E p \in Procs : ProcLookup(p)
  \/ \E p \in Procs : ProcLoop(p)
  \/ \E p \in Procs : ProcList(p)
  \/ \E p \in Procs : ProcReturn(p)

\* The package as shipped, called from NumProcs goroutines.
SpecConc == Init /\ [][NextConc]_vars


---------------------------------------------------------------------------
\* The engine with two codec files of arbitrary names and aliases, to reach
\* the registries in which names and aliases collide, chain or are not in
\* normalized form.

\* "a", "A", "B", "_", "-"
RegLabels == {<<97>>, <<65>>, <<66>>, <<95>>, <<45>>}

\* The alias lists of a codec file: none or one alias.
RegAliases == {<<>>} \cup {<<l>> : l \in RegLabels}

\* The labels of the calls: the registry labels and "a_".
RegCallLabels == RegLabels \cup {<<97, 95>>}

\* The tables of the two files: 0x41 is "A" in the first and U+0104 in the
\* second.
Table_FileA == [b \in {65} |-> 65]

Table_FileB == [b \in {65} |-> 260]

\* func init() of a codec file with table charmapDecode, registered under
\* name with aliases.
init_File(routine, charmapDecode, name, aliases) ==
  /\ pc = "init"
  /\ routine \in pending
  /\ initCodec(charmapDecode, name, aliases)
  /\ AfterInit(routine)

InitRegistry ==
  /\ pc = "init"
  /\ pending = {"file-a", "file-b"}
  /\ aliasesMap = EmptyMap
  /\ codecsMap = EmptyMap
  /\ call = NoCall
  /\ procs = [p \in Procs |-> IdleProc]

NextRegistry ==
  \/ \E name \in RegLabels, aliases \in RegAliases :
       init_File("file-a", Table_FileA, name, aliases)
  \/ \E name \in RegLabels, aliases \in RegAliases :
       init_File("file-b", Table_FileB, name, aliases)
  \/ CallDecode({<<65>>}, RegCallLabels)
  \/ Return

SpecRegistry == InitRegistry /\ [][NextRegistry]_vars

---------------------------------------------------------------------------
\* Vocabulary of the properties.

Conversions == {"Encode", "Decode", "EncodeToBuffer", "DecodeToBuffer"}

\* What the last call returned, as the facade operators return it.
Outcome == [result |-> call.result, err |-> call.err]

\* The last call was a conversion whose label resolves to a registered codec.
Registered ==
  /\ call.op \in Conversions
  /\ getCodecForEncoding(call.encoding) \in DOMAIN codecsMap

\* The codec the last call's label selects.
Selected == codecsMap[getCodecForEncoding(call.encoding)]

\* The UTF-8 text of a sequence of runes.
RECURSIVE Utf8(_)
Utf8(rs) == IF rs = <<>> THEN <<>> ELSE WriteRune(Head(rs)) \o Utf8(Tail(rs))

\* The sequences of at most n elements of S.
SeqsUpTo(S, n) == UNION {[1..k -> S] : k \in 0..n}

\* The runes the inputs of the model are made of.
InputRunes == {65, 260, 7682, RuneError}

\* The rune sequences that data is the UTF-8 text of.
TextsOf(data) == {rs \in SeqsUpTo(InputRunes, MaxLen) : Utf8(rs) = data}

---------------------------------------------------------------------------
\* C1: a conversion whose label, normalized and resolved through the
\* aliases, is not a key of the codec registry returns ErrUnknownEncoding
\* and a result equal to its input, byte for byte.
C1_UnknownEncodingReturnsInput ==
  (call.op \in Conversions
     /\ getCodecForEncoding(call.encoding) \notin DOMAIN codecsMap)
    => (call.err = ErrUnknownEncoding /\ call.result = call.data)

\* An unknown label was given with a non-empty input that a codec would
\* have changed.
C1_Witness ==
  /\ call.op = "EncodeToBuffer"
  /\ call.encoding \in UnknownLabels
  /\ call.data = <<196, 132, 161>>
  /\ call.err = ErrUnknownEncoding

\* C2: Decode under a registered codec turns the i-th input byte into the
\* i-th output codepoint: the table's rune for that byte, or U+FFFD when the
\* table has none; the error is ErrInvalidCodepoint exactly when some input
\* byte is absent from the table and nil otherwise; a one-byte input gives
\* one mapped codepoint and nil, or U+FFFD and ErrInvalidCodepoint.
C2_DecodeMapsEveryByte ==
  (call.op = "Decode" /\ Registered) =>
    LET cm == Selected.DecodeMap
        data == call.data
        out == RangeString(call.result)
        absent == {i \in 1..Len(data) : data[i] \notin DOMAIN cm}
    IN /\ Len(out) = Len(data)
       /\ \A i \in 1..Len(data) :
            out[i] = IF data[i] \in DOMAIN cm THEN cm[data[i]] ELSE RuneError
       /\ call.result = Utf8(out)
       /\ call.err = IF absent # {} THEN ErrInvalidCodepoint ELSE NoError
       /\ Len(data) = 1 =>
            \/ data[1] \in DOMAIN cm /\ out = <<cm[data[1]]>>
                 /\ call.err = NoError
            \/ out = <<RuneError>> /\ call.err = ErrInvalidCodepoint

\* An unmapped byte was decoded and the mapped byte after it still was.
C2_Witness ==
  /\ call.op = "Decode" /\ Registered
  /\ Len(call.data) = 2
  /\ call.data[1] \notin DOMAIN Selected.DecodeMap
  /\ call.data[2] \in DOMAIN Selected.DecodeMap
  /\ Selected.DecodeMap[call.data[2]] = 260
  /\ call.result = Utf8(<<RuneError, 260>>)
  /\ call.err = ErrInvalidCodepoint

\* C3: Encode under a registered codec turns the i-th codepoint of the input
\* text into the i-th output byte: the encode table's byte for it, or 0x3F
\* when the table has none; the error is ErrInvalidCodepoint exactly when
\* some codepoint is absent from the encode table and nil otherwise.  The
\* codepoints are those the input is the UTF-8 text of (and, for any input,
\* those a loop over the string visits).
C3_EncodeMapsEveryCodepoint ==
  (call.op = "Encode" /\ Registered) =>
    LET cm == Selected.EncodeMap
        Holds(rs) ==
          /\ Len(call.result) = Len(rs)
          /\ \A i \in 1..Len(rs) :
               call.result[i] = IF rs[i] \in DOMAIN cm THEN cm[rs[i]]
                                                       ELSE SubstituteByte
          /\ call.err = IF \E i \in 1..Len(rs) : rs[i] \notin DOMAIN cm
                          THEN ErrInvalidCodepoint ELSE NoError
    IN /\ Holds(RangeString(call.data))
       /\ \A rs \in TextsOf(call.data) : Holds(rs)
       /\ call.data = <<>> => (call.result = <<>> /\ call.err = NoError)

\* A text of a two-byte codepoint the table has and a three-byte codepoint
\* it has not was encoded.
C3_Witness ==
  /\ call.op = "Encode" /\ Registered
  /\ call.data = Utf8(<<260, RuneError>>)
  /\ <<260, RuneError>> \in TextsOf(call.data)
  /\ 260 \in DOMAIN Selected.EncodeMap
  /\ RuneError \notin DOMAIN Selected.EncodeMap
  /\ call.result = <<Selected.EncodeMap[260], SubstituteByte>>

\* C4: substitution, not truncation.  When k >= 1 of the N input units have
\* no mapping under the selected registered codec (bytes absent from the
\* decode table for Decode, codepoints absent from the encode table for
\* Encode), the output has exactly N units and the error is
\* ErrInvalidCodepoint, wherever the unmappable units stand.
C4_SubstitutionNotTruncation ==
  /\ (call.op = "Decode" /\ Registered
        /\ \E i \in 1..Len(call.data) :
             call.data[i] \notin DOMAIN Selected.DecodeMap)
       => /\ Len(RangeString(call.result)) = Len(call.data)
          /\ call.err = ErrInvalidCodepoint
  /\ (call.op = "Encode" /\ Registered) =>
       \A rs \in TextsOf(call.data) \cup {RangeString(call.data)} :
         (\E i \in 1..Len(rs) : rs[i] \notin DOMAIN Selected.EncodeMap)
           => /\ Len(call.result) = Len(rs)
              /\ call.err = ErrInvalidCodepoint

\* A text whose first codepoint has no byte and whose second has one was
\* encoded to two bytes.
C4_Witness ==
  /\ call.op = "Encode" /\ Registered
  /\ call.data = Utf8(<<RuneError, 260>>)
  /\ RuneError \notin DOMAIN Selected.EncodeMap
  /\ 260 \in DOMAIN Selected.EncodeMap
  /\ Len(call.result) = 2
  /\ call.err = ErrInvalidCodepoint

\* C5: round trip on mappable text.  When the input of Encode is the UTF-8
\* text of codepoints that are all keys of the selected codec's encode
\* table, Encode returns nil and Decode of its result, under the same label,
\* returns the input text and nil.
C5_RoundTripOnMappableText ==
  (call.op = "Encode" /\ Registered
     /\ \E rs \in TextsOf(call.data) :
          \A i \in 1..Len(rs) : rs[i] \in DOMAIN Selected.EncodeMap)
    => /\ call.err = NoError
       /\ Decode(call.result, call.encoding)
            = [result |-> call.data, err |-> NoError]

\* A text of a two-byte codepoint, twice, was encoded under a table in which
\* two bytes hold that codepoint.
C5_Witness ==
  /\ call.op = "Encode" /\ Registered
  /\ call.data = Utf8(<<260, 260>>)
  /\ 260 \in DOMAIN Selected.EncodeMap
  /\ Cardinality(KeysOf(Selected.DecodeMap, 260)) = 2
  /\ call.err = NoError

\* The spellings of the ISO-8859-2 names and of the ISO-8859-14 names.
Family_8859_2 ==
  UNION {Variants(s) : s \in {Name_ISO_8859_2, Alias_8859_2, Alias_ISO8859_2}}

Family_8859_14 ==
  UNION {Variants(s) : s \in {Name_ISO_8859_14, Alias_8859_14, Alias_ISO8859_14}}

\* "iso_8859_2"
Label_iso_8859_2 == <<105, 115, 111, 95, 56, 56, 53, 57, 95, 50>>

\* C6: alias equivalence.  A label is uppercased, its '_' are replaced by
\* '-', and the outcome is looked up as an alias; so Decode and Encode give,
\* for the same input, the same result and the same error under "8859-2",
\* "ISO-8859-2", "ISO8859-2", "iso_8859_2" and every spelling that differs
\* from one of them in letter case or in '_' for '-' only, all of which
\* select the ISO-8859-2 codec; likewise for the ISO-8859-14 names.
C6_AliasEquivalence ==
  LET Same(family, name) ==
        (call.op \in {"Encode", "Decode"} /\ call.encoding \in family) =>
          /\ getCodecForEncoding(call.encoding) = name
          /\ call.err # ErrUnknownEncoding
          /\ \A l \in family :
               Outcome = IF call.op = "Encode" THEN Encode(call.data, l)
                                               ELSE Decode(call.data, l)
  IN /\ {Name_ISO_8859_2, Alias_8859_2, Alias_ISO8859_2, Label_iso_8859_2}
          \subseteq Family_8859_2
     /\ Same(Family_8859_2, Name_ISO_8859_2)
     /\ Same(Family_8859_14, Name_ISO_8859_14)

\* 0xA1 was decoded under "iso_8859_2" to U+0104.
C6_Witness ==
  /\ call.op = "Decode"
  /\ call.encoding = Label_iso_8859_2
  /\ call.data = <<161>>
  /\ call.result = Utf8(<<260>>)
  /\ call.err = NoError

\* C7: EncodeToBuffer(d, enc) returns the bytes and the error that
\* Encode(string(d), enc) returns, for every registered encoding.
C7_BufferEncodeEqualsEncode ==
  (call.op = "EncodeToBuffer" /\ Registered)
    => Outcome = Encode(call.data, call.encoding)

\* C8: DecodeToBuffer(d, enc) returns a buffer holding the text that
\* Decode(string(d), enc) returns, and the same error, for every registered
\* encoding.
C8_BufferDecodeEqualsDecode ==
  (call.op = "DecodeToBuffer" /\ Registered)
    => Outcome = Decode(call.data, call.encoding)

\* A buffer with an unmapped byte before a mapped one was decoded.
C8_Witness ==
  /\ call.op = "DecodeToBuffer" /\ Registered
  /\ Len(call.data) = 2
  /\ call.data[1] \notin DOMAIN Selected.DecodeMap
  /\ call.data[2] \in DOMAIN Selected.DecodeMap
  /\ Selected.DecodeMap[call.data[2]] = 260
  /\ call.result = <<239, 191, 189, 196, 132>>
  /\ call.err = ErrInvalidCodepoint

\* The table each shipped name is registered with.
ShippedTable(name) ==
  IF name = Name_ISO_8859_14 THEN charmapDecode_8859_14 ELSE charmapDecode_8859_2

\* C9: list consistency.  Every name List returns, given unchanged as the
\* label, resolves to itself and to a registered codec, so that no
\* conversion under it returns ErrUnknownEncoding, and the codec it selects
\* is the one registered under that name.
C9_ListConsistency ==
  call.op = "List" =>
    \A i \in 1..Len(call.result) :
      LET name == call.result[i]
      IN /\ getCodecForEncoding(name) = name
         /\ name \in DOMAIN codecsMap
         /\ name \in {Name_ISO_8859_14, Name_ISO_8859_2}
         /\ codecsMap[getCodecForEncoding(name)].DecodeMap = ShippedTable(name)
         /\ \A data \in Units :
              /\ Encode(data, name).err # ErrUnknownEncoding
              /\ Decode(data, name).err # ErrUnknownEncoding

\* List returned both names.
C9_Witness ==
  /\ call.op = "List"
  /\ call.result = <<Name_ISO_8859_2, Name_ISO_8859_14>>

\* C10: table independence.  The byte 0xA1 decodes to U+0104 with nil under
\* ISO-8859-2 and to U+1E02 with nil under ISO-8859-14, in every state in
\* which the codec is registered, whether or not the other codec is
\* registered and whichever was registered first.
C10_TableIndependence ==
  LET Decodes(name, r) ==
        /\ name \in DOMAIN codecsMap =>
             /\ codecsMap[name].DecodeMap[161] = r
             /\ codecMap8Bit_Decode(codecsMap[name], <<161>>)
                  = [result |-> Utf8(<<r>>), err |-> NoError]
        /\ (call.op = "Decode" /\ call.data = <<161>>
              /\ getCodecForEncoding(call.encoding) = name)
             => (RangeString(call.result) = <<r>> /\ call.err = NoError)
  IN /\ Decodes(Name_ISO_8859_2, 260)
     /\ Decodes(Name_ISO_8859_14, 7682)

\* 0xA1 was decoded under "ISO-8859-14", registered beside ISO-8859-2, to
\* the three UTF-8 bytes of U+1E02.
C10_Witness ==
  /\ call.op = "Decode"
  /\ call.encoding = Name_ISO_8859_14
  /\ call.data = <<161>>
  /\ call.result = <<225, 184, 130>>
  /\ DOMAIN codecsMap = {Name_ISO_8859_14, Name_ISO_8859_2}

\* What the call of goroutine record q returns when it runs alone in the
\* current registry.
RunAlone(q) ==
  IF q.op = "Encode" THEN Encode(q.data, q.encoding)
  ELSE IF q.op = "Decode" THEN Decode(q.data, q.encoding)
  ELSE IF q.op = "EncodeToBuffer" THEN EncodeToBuffer(q.data, q.encoding)
  ELSE DecodeToBuffer(q.data, q.encoding)

\* Every finished concurrent call has the result and the error of the same
\* call run alone.
DoneAsAlone ==
  \A p \in Procs :
    procs[p].pc = "done" =>
      IF procs[p].op = "List"
        THEN procs[p].result \in List /\ procs[p].err = NoError
        ELSE [result |-> procs[p].result, err |-> procs[p].err]
               = RunAlone(procs[p])

\* C11: read-only after initialization.  Once the init functions have run,
\* no step of Encode, Decode, EncodeToBuffer, DecodeToBuffer or List changes
\* aliasesMap, codecsMap or a codec's EncodeMap or DecodeMap (the codecs are
\* the values of codecsMap); and under every interleaving of the steps of
\* concurrently running calls, each call returns the result and the error
\* it returns when run alone.
C11_ReadOnlyAfterInit ==
  /\ []DoneAsAlone
  /\ [][pc # "init" => UNCHANGED <<aliasesMap, codecsMap>>]_vars

\* One goroutine has finished decoding 0xA1 while another is in the middle
\* of its loop.
C11_Witness ==
  \E p, q \in Procs :
    /\ p # q
    /\ procs[p].pc = "done" /\ procs[p].op = "Decode"
    /\ procs[p].data = <<161>> /\ procs[p].result = <<196, 132>>
    /\ procs[q].pc = "loop" /\ procs[q].i = 2
    /\ procs[q].op = "EncodeToBuffer"

\* The registry the two init functions build together.
FullRegistry ==
  /\ DOMAIN codecsMap = {Name_ISO_8859_14, Name_ISO_8859_2}
  /\ DOMAIN aliasesMap =
       {Alias_8859_14, Alias_ISO8859_14, Alias_8859_2, Alias_ISO8859_2}
  /\ aliasesMap[Alias_8859_14] = Name_ISO_8859_14
  /\ aliasesMap[Alias_ISO8859_14] = Name_ISO_8859_14
  /\ aliasesMap[Alias_8859_2] = Name_ISO_8859_2
  /\ aliasesMap[Alias_ISO8859_2] = Name_ISO_8859_2

\* C12: initialization strictly precedes use.  Whenever a public function
\* has been called, every init function has run and the registry holds both
\* codecs with all their aliases; and once the public functions can be
\* called, no init function runs and no register call changes the registry.
C12_InitPrecedesUse ==
  /\ [](call.op # "none" => (pending = {} /\ FullRegistry))
  /\ [](pc # "init" => (pending = {} /\ FullRegistry))
  /\ [][pc # "init" =>
          (pc' # "init" /\ UNCHANGED <<pending, aliasesMap, codecsMap>>)]_vars

\* A conversion under an alias of the codec registered last has returned.
C12_Witness ==
  /\ pc = "returned"
  /\ call.op = "Encode"
  /\ call.encoding = Alias_ISO8859_2
  /\ call.err = NoError
  /\ pending = {}
  /\ FullRegistry

\* The largest byte that holds rune v in table m: the entry of v that the
\* table literal lists last.
LastKeyOf(m, v) == CHOOSE k \in KeysOf(m, v) : \A j \in KeysOf(m, v) : j <= k

\* C13 as claimed: when the init functions have run, the encode table of
\* every codec has exactly the runes of its decode table as keys, maps each
\* rune to a byte that decodes to it, and for a rune held by several bytes
\* keeps the last one, the same on every construction from the same table.
C13_InverseIsDetermined ==
  pc = "ready" =>
    \A name \in DOMAIN codecsMap :
      LET m == codecsMap[name].DecodeMap
          e == codecsMap[name].EncodeMap
      IN /\ DOMAIN e = Range(m)
         /\ \A v \in DOMAIN e : e[v] \in DOMAIN m /\ m[e[v]] = v
         /\ \A v \in DOMAIN e : e[v] = LastKeyOf(m, v)
         /\ \A e2 \in reverseByteRuneMap(m) : e2 = e

\* C13 as amended: when the init functions have run, the encode table of
\* every codec has exactly the runes of its decode table as keys and maps
\* each rune to one byte that decodes to it.  When no rune is held by two
\* bytes the encode table is the same on every construction.  When a rune is
\* held by several bytes, one of them survives and which one is not
\* determined: it is the byte the map loop visits last, in an order Go leaves
\* unspecified, so every one of those bytes is the survivor of some
\* construction.
C13_InverseUpToTies ==
  pc = "ready" =>
    \A name \in DOMAIN codecsMap :
      LET m == codecsMap[name].DecodeMap
          e == codecsMap[name].EncodeMap
          tied == {v \in Range(m) : Cardinality(KeysOf(m, v)) > 1}
          inverses == reverseByteRuneMap(m)
      IN /\ DOMAIN e = Range(m)
         /\ \A v \in DOMAIN e : e[v] \in KeysOf(m, v) /\ m[e[v]] = v
         /\ e \in inverses
         /\ tied = {} => inverses = {e}
         /\ \A v \in tied : \A k \in KeysOf(m, v) :
              \E e2 \in inverses : e2[v] = k

\* A codec is registered whose table has U+0104 at 0x41 and at 0xA1 and whose
\* encode table kept 0x41, the entry the table lists first.
C13_Witness ==
  /\ pc = "ready"
  /\ Name_Table \in DOMAIN codecsMap
  /\ codecsMap[Name_Table].DecodeMap = [b \in {65, 161} |-> 260]
  /\ codecsMap[Name_Table].EncodeMap[260] = 65

\* C14: resolution is normalization followed by one alias step.  A Decode
\* call selects the codec registered under aliasesMap[n] when the normalized
\* label n is an alias, also when n is a canonical name as well, and under n
\* otherwise; the name so selected is looked up in codecsMap as it stands,
\* neither normalized nor resolved again; and normalizing n leaves it
\* unchanged.
C14_ResolveIsOneAliasStep ==
  call.op = "Decode" =>
    LET n == ReplaceUnderscores(ToUpper(call.encoding))
        name == IF n \in DOMAIN aliasesMap THEN aliasesMap[n] ELSE n
    IN /\ getCodecForEncoding(call.encoding) = name
       /\ Outcome = IF name \in DOMAIN codecsMap
                      THEN codecMap8Bit_Decode(codecsMap[name], call.data)
                      ELSE [result |-> call.data, err |-> ErrUnknownEncoding]
       /\ ReplaceUnderscores(ToUpper(n)) = n

\* "A" is a canonical name and an alias of the lower-case name "a": the
\* label "a" selected the codec registered under "a", not the one under "A".
C14_Witness ==
  /\ call.op = "Decode"
  /\ call.encoding = <<97>>
  /\ <<65>> \in DOMAIN codecsMap
  /\ <<65>> \in DOMAIN aliasesMap
  /\ aliasesMap[<<65>>] = <<97>>
  /\ codecsMap[<<65>>].DecodeMap = Table_FileA
  /\ codecsMap[<<97>>].DecodeMap = Table_FileB
  /\ call.data = <<65>>
  /\ call.result = <<196, 132>>
  /\ call.err = NoError

\* C15: the registry is well formed once the init functions have run.  No
\* alias is a canonical name; every alias leads to the name it was
\* registered for (so none was registered for two names); every alias
\* target is a key of codecsMap; every canonical name and every alias is
\* left unchanged by the normalization; and so each of them, given as the
\* label, reaches its codec.
C15_RegistryWellFormed ==
  pc # "init" =>
    LET names == DOMAIN codecsMap
        aliases == DOMAIN aliasesMap
        RegisteredFor(name, as) ==
          \A i \in 1..Len(as) : as[i] \in aliases /\ aliasesMap[as[i]] = name
    IN /\ aliases \cap names = {}
       /\ RegisteredFor(Name_ISO_8859_14, <<Alias_8859_14, Alias_ISO8859_14>>)
       /\ RegisteredFor(Name_ISO_8859_2, <<Alias_8859_2, Alias_ISO8859_2>>)
       /\ Cardinality(aliases) = 4
       /\ \A a \in aliases : aliasesMap[a] \in names
       /\ \A l \in names \cup aliases : Normalize(l) = l
       /\ \A name \in names :
            /\ getCodecForEncoding(name) = name
            /\ Decode(<<161>>, name).err = NoError
       /\ \A a \in aliases :
            /\ getCodecForEncoding(a) = aliasesMap[a]
            /\ Decode(<<161>>, a) = Decode(<<161>>, aliasesMap[a])
            /\ Decode(<<161>>, a).err = NoError

\* A call under the alias "8859-14" reached the ISO-8859-14 codec.
C15_Witness ==
  /\ pc = "returned"
  /\ call.op = "Decode"
  /\ call.encoding = Alias_8859_14
  /\ call.data = <<161>>
  /\ call.result = <<225, 184, 130>>
  /\ Cardinality(DOMAIN aliasesMap) = 4

\* C16: the two shipped tables are total over 0x00..0xFF and injective; so
\* Decode under either codec returns nil, has no U+FFFD in its result, and
\* Encode of its result under the same label returns the decoded bytes and
\* nil.
C16_ShippedTablesTotalInjective ==
  /\ \A name \in DOMAIN codecsMap :
       /\ DOMAIN codecsMap[name].DecodeMap = 0..255
       /\ Cardinality(Range(codecsMap[name].DecodeMap)) = 256
  /\ (call.op = "Decode" /\ Registered) =>
       /\ call.err = NoError
       /\ \A i \in 1..Len(RangeString(call.result)) :
            RangeString(call.result)[i] # RuneError
       /\ Len(RangeString(call.result)) = Len(call.data)
       /\ Encode(call.result, call.encoding)
            = [result |-> call.data, err |-> NoError]

\* 0xFF was decoded under "ISO-8859-2" to U+02D9.
C16_Witness ==
  /\ call.op = "Decode"
  /\ call.encoding = Name_ISO_8859_2
  /\ call.data = <<255>>
  /\ call.result = <<203, 153>>
  /\ call.err = NoError

=============================================================================
